---- MODULE Spec2Model ----
(***************************************************************************)
(* Laboratory inventory backend (app.py): the Flask handlers that mutate   *)
(* the remote store (reagents, reagent_batches, equipment,                 *)
(* maintenance_logs, records) and the dashboard aggregation.               *)
(*                                                                         *)
(* The remote store is modelled as one set of rows per table (a SELECT    *)
(* without ORDER BY returns its rows in no particular order, so `data[0]`  *)
(* is a choice among the matching rows) and the append-only `records`      *)
(* table as a sequence in insertion (time) order.                          *)
(*                                                                         *)
(* `reqs` holds the requests that are served store call by store call      *)
(* (two of them at a time); it stays empty while requests are served one   *)
(* after another.                                                          *)
(***************************************************************************)
EXTENDS Integers, Sequences, FiniteSets, TLC

VARIABLES reagents, reagent_batches, equipment, maintenance_logs, records,
          nextId, calls, faults, today, last, reqs

store == <<reagents, reagent_batches, equipment, maintenance_logs, records>>
vars == <<reagents, reagent_batches, equipment, maintenance_logs, records,
          nextId, calls, faults, today, last, reqs>>

(***************************************************************************)
(* Bounds of the model.                                                    *)
(***************************************************************************)
\* number of mutating requests served in one run
MaxCalls == 2
\* number of store calls that raise in one run
MaxFaults == 1

(***************************************************************************)
(* JSON payload values.                                                    *)
(***************************************************************************)
\* a key that the request body does not carry (dict.get returns its default)
Absent == "<absent>"
\* SQL NULL / Python None
Null == "<null>"
\* falsy payload values: `x or None`, `if data.get(k)`
Falsy(v) == v \in {Absent, Null, ""}

\* data.get('category', '未分类')
DefaultCategory == "uncategorized"

\* int(data.get('quantity', 1)) on a JSON integer
DefaultQuantity == 1

(***************************************************************************)
(* Input domains.                                                          *)
(***************************************************************************)
ReagentNames == {"NaCl", "KCl"}

ReagentInfos ==
    { [articleNo |-> "A1", manufacturer |-> "M1", category |-> Absent],
      [articleNo |-> "A2", manufacturer |-> "M2", category |-> "salt"] }

BaseDetails ==
    [batchNo |-> "B1", prodDate |-> <<2025, 1, 1>>, expDate |-> <<2026, 1, 1>>,
     testsPerUnit |-> 2, location |-> "L1", temp |-> "4C"]

BatchDetailsSet ==
    { BaseDetails,
      [BaseDetails EXCEPT !.batchNo = "B2", !.testsPerUnit = 3],
      [BaseDetails EXCEPT !.temp = "-20C"] }

Qtys == {-1, 0, 1}

ReagentInRequests ==
    { [name |-> n, articleNo |-> i.articleNo, manufacturer |-> i.manufacturer,
       category |-> i.category, qty |-> q, batchDetails |-> d, operator |-> "op"] :
        n \in ReagentNames, i \in ReagentInfos, q \in Qtys, d \in BatchDetailsSet }

Amounts == -1 .. 3

(***************************************************************************)
(* log_record: the audit insert; its failure is caught and printed.        *)
(***************************************************************************)
Record(type, item_type, name, batch_or_serial, qty, operator, notes) ==
    [type |-> type, item_type |-> item_type, name |-> name,
     batch_or_serial |-> batch_or_serial, qty |-> qty, operator |-> operator,
     notes |-> notes]

\* defective variant: the row is stored although the insert call raised
log_recordStoresAnyway(recs, rec, insertFails) == Append(recs, rec)

log_record(recs, rec, insertFails) ==
    IF insertFails THEN recs ELSE Append(recs, rec)

Audit(insertFails) == IF insertFails THEN "failed" ELSE "inserted"

(***************************************************************************)
(* The state a handler returns in.                                         *)
(***************************************************************************)
Snapshot ==
    [reagents |-> reagents, reagent_batches |-> reagent_batches,
     equipment |-> equipment, maintenance_logs |-> maintenance_logs,
     records |-> records]

\* defective variant: a failed audit insert turns the response into an error
RespondFailsOnAuditFailure(op, data, status, path, audit) ==
    /\ last' = [op |-> op, data |-> data,
                status |-> IF audit = "failed" THEN 500 ELSE status,
                path |-> path, audit |-> audit, before |-> Snapshot]
    /\ calls' = calls + 1
    /\ UNCHANGED <<today, reqs>>

\* op, data: the request; status, path: the response and the branch taken;
\* audit: whether log_record ran and whether its insert raised;
\* before: the store when the request arrived
Respond(op, data, status, path, audit) ==
    /\ last' = [op |-> op, data |-> data, status |-> status, path |-> path,
                audit |-> audit, before |-> Snapshot]
    /\ calls' = calls + 1
    /\ UNCHANGED <<today, reqs>>

Init ==
    /\ reagents = {}
    /\ reagent_batches = {}
    /\ equipment = {}
    /\ maintenance_logs = {}
    /\ records = <<>>
    /\ nextId = 1
    /\ calls = 0
    /\ faults = 0
    /\ reqs = <<>>
    /\ today = <<2025, 12, 15>>
    /\ last = [op |-> "none", data |-> Null, status |-> 0, path |-> "none",
               audit |-> "none",
               before |-> [reagents |-> {}, reagent_batches |-> {},
                           equipment |-> {}, maintenance_logs |-> {},
                           records |-> <<>>]]

(***************************************************************************)
(* POST /api/reagents/in                                                   *)
(***************************************************************************)
\* data.get('category', '未分类')
CategoryOf(data) ==
    IF data.category = Absent THEN DefaultCategory ELSE data.category

\* defective variant: the location filter is applied to the temperature column
BatchMatchesWrongColumn(b, reagent_id, d) ==
    /\ b.reagent_id = reagent_id
    /\ b.batch_no = d.batchNo
    /\ b.prod_date = d.prodDate
    /\ b.exp_date = d.expDate
    /\ b.tests_per_unit = d.testsPerUnit
    /\ b.temp = d.location
    /\ b.temp = d.temp

\* defective variant: the lookup leaves the storage temperature out of the key
BatchMatchesIgnoringTemp(b, reagent_id, d) ==
    /\ b.reagent_id = reagent_id
    /\ b.batch_no = d.batchNo
    /\ b.prod_date = d.prodDate
    /\ b.exp_date = d.expDate
    /\ b.tests_per_unit = d.testsPerUnit
    /\ b.location = d.location

\* the seven .eq() filters of the batch lookup
BatchMatches(b, reagent_id, d) ==
    /\ b.reagent_id = reagent_id
    /\ b.batch_no = d.batchNo
    /\ b.prod_date = d.prodDate
    /\ b.exp_date = d.expDate
    /\ b.tests_per_unit = d.testsPerUnit
    /\ b.location = d.location
    /\ b.temp = d.temp

\* defective variant: the earlier logic, which updated the category alone
UpdateReagentCategoryOnly(rs, reagent_id, data) ==
    { IF r.id = reagent_id THEN [r EXCEPT !.category = CategoryOf(data)] ELSE r :
        r \in rs }

\* the update of an existing reagent's article number, manufacturer, category
UpdateReagent(rs, reagent_id, data) ==
    { IF r.id = reagent_id
        THEN [r EXCEPT !.article_no = data.articleNo,
                       !.manufacturer = data.manufacturer,
                       !.category = CategoryOf(data)]
        ELSE r : r \in rs }

InsertReagent(rs, id, data) ==
    rs \cup { [id |-> id, name |-> data.name, article_no |-> data.articleNo,
               manufacturer |-> data.manufacturer, category |-> CategoryOf(data)] }

TotalIn(data) == data.qty * data.batchDetails.testsPerUnit

\* defective variant: the merge overwrites the stock instead of adding to it
MergeBatchOverwrite(bs, existing_batch, total_in) ==
    { IF b.id = existing_batch.id THEN [b EXCEPT !.total_tests = total_in] ELSE b :
        b \in bs }

MergeBatch(bs, existing_batch, total_in) ==
    { IF b.id = existing_batch.id
        THEN [b EXCEPT !.total_tests = existing_batch.total_tests + total_in]
        ELSE b : b \in bs }

\* defective variant: the new row holds the tests of one container only
InsertBatchOneContainer(bs, id, reagent_id, d, total_in) ==
    bs \cup { [id |-> id, reagent_id |-> reagent_id, batch_no |-> d.batchNo,
               prod_date |-> d.prodDate, exp_date |-> d.expDate,
               total_tests |-> d.testsPerUnit, tests_per_unit |-> d.testsPerUnit,
               location |-> d.location, temp |-> d.temp] }

InsertBatch(bs, id, reagent_id, d, total_in) ==
    bs \cup { [id |-> id, reagent_id |-> reagent_id, batch_no |-> d.batchNo,
               prod_date |-> d.prodDate, exp_date |-> d.expDate,
               total_tests |-> total_in, tests_per_unit |-> d.testsPerUnit,
               location |-> d.location, temp |-> d.temp] }

\* fault: 1 reagent select, 2 reagent update/insert, 3 batch select,
\*        4 batch update/insert, 5 audit insert (swallowed by log_record)
reagent_in(data, fault) ==
    LET reagent_res == { r \in reagents : r.name = data.name }
           found == reagent_res # {}
       IN \E r0 \in (IF found THEN reagent_res ELSE {Null}) :
          LET reagent_id == IF found THEN r0.id ELSE nextId
              reagents2 == IF found THEN UpdateReagent(reagents, reagent_id, data)
                                    ELSE InsertReagent(reagents, reagent_id, data)
              idAfterReagent == IF found THEN nextId ELSE nextId + 1
              d == data.batchDetails
              existing_batch_res ==
                  { b \in reagent_batches : BatchMatches(b, reagent_id, d) }
              merge == existing_batch_res # {}
              total_in == TotalIn(data)
          IN \E b0 \in (IF merge THEN existing_batch_res ELSE {Null}) :
             LET batches2 ==
                     IF merge THEN MergeBatch(reagent_batches, b0, total_in)
                              ELSE InsertBatch(reagent_batches, idAfterReagent,
                                               reagent_id, d, total_in)
                 idAfterBatch == IF merge THEN idAfterReagent ELSE idAfterReagent + 1
                 log_notes == IF merge THEN <<"merged", data.qty>>
                                       ELSE <<"new batch", data.qty>>
                 rec == Record("in", "reagent", data.name, d.batchNo, total_in,
                               data.operator, log_notes)
             IN CASE fault \in {1, 2} ->
                       /\ UNCHANGED <<store, nextId>>
                       /\ Respond("reagent_in", data, 500, "error", "none")
                  [] fault \in {3, 4} ->
                       /\ reagents' = reagents2
                       /\ nextId' = idAfterReagent
                       /\ UNCHANGED <<reagent_batches, equipment, maintenance_logs,
                                      records>>
                       /\ Respond("reagent_in", data, 500, "error", "none")
                  [] OTHER ->
                       /\ reagents' = reagents2
                       /\ reagent_batches' = batches2
                       /\ nextId' = idAfterBatch
                       /\ records' = log_record(records, rec, fault = 5)
                       /\ UNCHANGED <<equipment, maintenance_logs>>
                       /\ Respond("reagent_in", data, 201,
                                  IF merge THEN "merged" ELSE "new batch",
                                  Audit(fault = 5))

(***************************************************************************)
(* POST /api/reagents/out                                                  *)
(***************************************************************************)
\* defective variant: the validation forgets the upper bound
InvalidAmountNoUpperBound(amount_out, batch) == amount_out <= 0

\* amount_out <= 0 or amount_out > batch['total_tests']
InvalidAmount(amount_out, batch) ==
    amount_out <= 0 \/ amount_out > batch.total_tests

\* defective variant: the batch row is deleted whatever is left of it
DeductDeletesAlways(bs, batch, amount_out) == { b \in bs : b.id # batch.id }

\* defective variant: the batch is deleted while one test-unit is left
DeductDeleteEarly(bs, batch, amount_out) ==
    LET new_total == batch.total_tests - amount_out
    IN IF new_total > 1
         THEN { IF b.id = batch.id THEN [b EXCEPT !.total_tests = new_total] ELSE b :
                  b \in bs }
         ELSE { b \in bs : b.id # batch.id }

\* the update of the batch's total_tests, or its deletion when nothing is left
Deduct(bs, batch, amount_out) ==
    LET new_total == batch.total_tests - amount_out
    IN IF new_total > 0
         THEN { IF b.id = batch.id THEN [b EXCEPT !.total_tests = new_total] ELSE b :
                  b \in bs }
         ELSE { b \in bs : b.id # batch.id }

\* fault: 1 batch select, 2 batch update/delete, 3 audit insert (swallowed)
\* amount_out = int(data['amount']): the payload carries a JSON integer, which
\* int() hands back as it is
reagent_out(data, fault) ==
    LET batch_res == { b \in reagent_batches : b.id = data.batchId }
       IN IF fault = 1
          THEN /\ UNCHANGED <<store, nextId>>
               /\ Respond("reagent_out", data, 500, "error", "none")
          ELSE IF batch_res = {}
          \* .single() on no row: the client raises (500) or hands back no
          \* data (404), depending on the client library
          THEN /\ UNCHANGED <<store, nextId>>
               /\ \E status \in {404, 500} :
                    Respond("reagent_out", data, status, "not found", "none")
          ELSE \E batch \in batch_res :
               LET amount_out == data.amount
                   new_total == batch.total_tests - amount_out
                   rec == Record("out", "reagent", data.reagentName, data.batchNo,
                                 amount_out, data.user, data.purpose)
               IN IF InvalidAmount(amount_out, batch)
                  THEN /\ UNCHANGED <<store, nextId>>
                       /\ Respond("reagent_out", data, 400, "invalid", "none")
                  ELSE IF fault = 2
                  THEN /\ UNCHANGED <<store, nextId>>
                       /\ Respond("reagent_out", data, 500, "error", "none")
                  ELSE /\ reagent_batches' = Deduct(reagent_batches, batch, amount_out)
                       /\ records' = log_record(records, rec, fault = 3)
                       /\ UNCHANGED <<reagents, equipment, maintenance_logs, nextId>>
                       /\ Respond("reagent_out", data, 200,
                                  IF new_total > 0 THEN "deducted" ELSE "deleted",
                                  Audit(fault = 3))

\* the ids a caller can name: those of the rows listed, and one of no row
BatchIds == { b.id : b \in reagent_batches } \cup {nextId}

ReagentOutRequests ==
    { [batchId |-> id, amount |-> a, reagentName |-> "NaCl", batchNo |-> "B1",
       user |-> "op", purpose |-> "assay"] :
        id \in BatchIds, a \in Amounts }

(***************************************************************************)
(* POST /api/equipment                                                     *)
(***************************************************************************)
\* data.get(k): None when the key is missing
Get(v) == IF v = Absent THEN Null ELSE v

\* data.get(k) or None: empty strings are stored as NULL
OrNone(v) == IF Falsy(v) THEN Null ELSE v

\* int(data.get('quantity', 1)); the optional JSON integer is <<>> when the
\* key is missing and <<n>> when it carries n
QuantityOf(data) == IF data.quantity = <<>> THEN DefaultQuantity ELSE data.quantity[1]

\* defective variant: the submitted quantity is stored whether or not a serial number came
RegisteredQuantityAsSubmitted(data) == QuantityOf(data)

\* 1 if data.get('serialNo') else int(data.get('quantity', 1))
RegisteredQuantity(data) == IF Falsy(data.serialNo) THEN QuantityOf(data) ELSE 1

NewEquip(data) ==
    [name |-> data.name,
     manufacturer |-> Get(data.manufacturer),
     model |-> Get(data.model),
     serial_no |-> OrNone(data.serialNo),
     quantity |-> RegisteredQuantity(data),
     location |-> Get(data.location),
     status |-> Get(data.status),
     purchase_date |-> OrNone(data.purchaseDate),
     deployment_date |-> OrNone(data.deploymentDate),
     warranty_date |-> OrNone(data.warrantyDate),
     person_in_charge |-> Get(data.personInCharge)]

\* new_equip['serial_no'] or new_equip['model']
DisplayId(row) == IF Falsy(row.serial_no) THEN row.model ELSE row.serial_no

WithId(row, id) == [f \in DOMAIN row \cup {"id"} |-> IF f = "id" THEN id ELSE row[f]]

\* defective variant: the uniqueness check filters on the wrong column
SerialTakenByModel(eq, data) ==
    /\ ~Falsy(data.serialNo)
    /\ { e \in eq : e.model = data.serialNo } # {}

\* the serial number uniqueness check: the rows carrying data['serialNo']
SerialTaken(eq, data) ==
    /\ ~Falsy(data.serialNo)
    /\ { e \in eq : e.serial_no = data.serialNo } # {}

\* fault: 1 serial select, 2 equipment insert, 3 audit insert (swallowed)
equipment_in(data, fault) ==
    LET new_equip == NewEquip(data)
           rec == Record("equipment-register", "equipment", new_equip.name,
                         DisplayId(new_equip), new_equip.quantity,
                         Get(data.operator), "")
       IN IF fault = 1 /\ ~Falsy(data.serialNo)
          THEN /\ UNCHANGED <<store, nextId>>
               /\ Respond("equipment_in", data, 500, "error", "none")
          ELSE IF SerialTaken(equipment, data)
          THEN /\ UNCHANGED <<store, nextId>>
               /\ Respond("equipment_in", data, 409, "conflict", "none")
          ELSE IF fault = 2
          THEN /\ UNCHANGED <<store, nextId>>
               /\ Respond("equipment_in", data, 500, "error", "none")
          ELSE /\ equipment' = equipment \cup { WithId(new_equip, nextId) }
               /\ nextId' = nextId + 1
               /\ records' = log_record(records, rec, fault = 3)
               /\ UNCHANGED <<reagents, reagent_batches, maintenance_logs>>
               /\ Respond("equipment_in", data, 201, "registered", Audit(fault = 3))

(***************************************************************************)
(* PUT /api/equipment/<equip_id>                                           *)
(***************************************************************************)
UpdateData(data) ==
    [manufacturer |-> Get(data.manufacturer),
     location |-> Get(data.location),
     status |-> Get(data.status),
     quantity |-> QuantityOf(data),
     purchase_date |-> OrNone(data.purchaseDate),
     deployment_date |-> OrNone(data.deploymentDate),
     warranty_date |-> OrNone(data.warrantyDate),
     person_in_charge |-> Get(data.personInCharge)]

\* defective variant: the update also clears the serial number of the row
ApplyUpdateClearsSerial(row, update_data) ==
    [f \in DOMAIN row |-> IF f \in DOMAIN update_data THEN update_data[f]
                          ELSE IF f = "serial_no" THEN Null ELSE row[f]]

ApplyUpdate(row, update_data) ==
    [f \in DOMAIN row |-> IF f \in DOMAIN update_data THEN update_data[f] ELSE row[f]]

\* fault: 1 equipment update, 2 audit insert (swallowed)
equipment_edit(equip_id, data, fault) ==
    LET update_data == UpdateData(data)
           hit == { e \in equipment : e.id = equip_id }
           updated == { ApplyUpdate(e, update_data) : e \in hit }
           req == [id |-> equip_id, body |-> data]
       IN IF fault = 1
          THEN /\ UNCHANGED <<store, nextId>>
               /\ Respond("equipment_edit", req, 500, "error", "none")
          ELSE IF updated = {}
          THEN /\ UNCHANGED <<store, nextId>>
               /\ Respond("equipment_edit", req, 404, "not found", "none")
          ELSE \E u \in updated :
               LET rec == Record("equipment-edit", "equipment", u.name, DisplayId(u),
                                 update_data.quantity, Get(data.operator), "update")
               IN /\ equipment' = (equipment \ hit) \cup updated
                  /\ records' = log_record(records, rec, fault = 2)
                  /\ UNCHANGED <<reagents, reagent_batches, maintenance_logs, nextId>>
                  /\ Respond("equipment_edit", req, 200, "edited", Audit(fault = 2))

(***************************************************************************)
(* POST /api/equipment/<equip_id>/maintenance                              *)
(***************************************************************************)
\* fault: 1 maintenance_logs insert, 2 equipment select, 3 audit insert
\* fkEnforced: whether the store rejects a log row whose equipment_id names
\* no equipment row (the schema is not part of the repository)
add_maintenance_log(equip_id, data, fault, fkEnforced) ==
    LET new_log == [id |-> nextId, equipment_id |-> equip_id, log_date |-> data.date,
                       log_type |-> data.type, notes |-> data.notes,
                       operator |-> data.operator]
           equip_info == { e \in equipment : e.id = equip_id }
           req == [id |-> equip_id, body |-> data]
       IN IF fault = 1 \/ (equip_info = {} /\ fkEnforced)
          THEN /\ UNCHANGED <<store, nextId>>
               /\ Respond("add_maintenance_log", req, 500, "error", "none")
          ELSE IF fault = 2 \/ equip_info = {}
          \* .single() on no row raises; the log row is already stored
          THEN /\ maintenance_logs' = maintenance_logs \cup {new_log}
               /\ nextId' = nextId + 1
               /\ UNCHANGED <<reagents, reagent_batches, equipment, records>>
               /\ Respond("add_maintenance_log", req, 500, "error after insert", "none")
          ELSE \E e \in equip_info :
               LET rec == Record("equipment-maintenance", "equipment", e.name,
                                 DisplayId(e), 1, new_log.operator,
                                 <<new_log.log_type, new_log.notes>>)
               IN /\ maintenance_logs' = maintenance_logs \cup {new_log}
                  /\ nextId' = nextId + 1
                  /\ records' = log_record(records, rec, fault = 3)
                  /\ UNCHANGED <<reagents, reagent_batches, equipment>>
                  /\ Respond("add_maintenance_log", req, 201, "logged", Audit(fault = 3))

(***************************************************************************)
(* Requests of the equipment handlers.                                     *)
(***************************************************************************)
SerialNos == {Absent, "", "SN1", "SN2"}

Quantities == {<<>>, <<5>>}

EquipmentInRequests ==
    { [name |-> "centrifuge", manufacturer |-> "M1", model |-> "MX",
       serialNo |-> s, quantity |-> q, location |-> "L1", status |-> "in use",
       purchaseDate |-> "", deploymentDate |-> Absent,
       warrantyDate |-> "2027-01-01", personInCharge |-> "pic",
       operator |-> "op"] : s \in SerialNos, q \in Quantities }

EquipmentEditRequests ==
    { [manufacturer |-> "M1", location |-> l, status |-> "in use", quantity |-> q,
       purchaseDate |-> "", deploymentDate |-> Absent,
       warrantyDate |-> "2027-01-01", personInCharge |-> "pic",
       operator |-> "op"] : l \in {Absent, "L2"}, q \in Quantities }

EquipIds == { e.id : e \in equipment } \cup {nextId}

MaintenanceRequests ==
    { [date |-> "2026-01-01", type |-> "repair", notes |-> "belt", operator |-> "op"] }

\* the run goes on while fewer than MaxCalls mutating requests were served
Open == calls < MaxCalls

ReagentIn ==
    /\ Open
    /\ UNCHANGED faults
    /\ \E data \in ReagentInRequests : reagent_in(data, 0)
ReagentOut ==
    /\ Open
    /\ UNCHANGED faults
    /\ \E data \in ReagentOutRequests : reagent_out(data, 0)
EquipmentIn ==
    /\ Open
    /\ UNCHANGED faults
    /\ \E data \in EquipmentInRequests : equipment_in(data, 0)
EquipmentEdit ==
    /\ Open
    /\ UNCHANGED faults
    /\ \E equip_id \in EquipIds, data \in EquipmentEditRequests :
          equipment_edit(equip_id, data, 0)
AddMaintenanceLog ==
    /\ Open
    /\ UNCHANGED faults
    /\ \E equip_id \in EquipIds, data \in MaintenanceRequests, fk \in BOOLEAN :
          add_maintenance_log(equip_id, data, 0, fk)

Next == ReagentIn \/ ReagentOut \/ EquipmentIn \/ EquipmentEdit \/ AddMaintenanceLog

Spec == Init /\ [][Next]_vars

(***************************************************************************)
(* The handlers against a store whose calls may raise: `fault` is the      *)
(* index of the store call of the handler that raises (0: none does).      *)
(***************************************************************************)
FaultLeft ==
    /\ Open
    /\ faults < MaxFaults
    /\ faults' = faults + 1

ReagentInFault ==
    /\ FaultLeft
    /\ \E data \in ReagentInRequests, fault \in 1 .. 5 : reagent_in(data, fault)
ReagentOutFault ==
    /\ FaultLeft
    /\ \E data \in ReagentOutRequests, fault \in 1 .. 3 : reagent_out(data, fault)
EquipmentInFault ==
    /\ FaultLeft
    /\ \E data \in EquipmentInRequests, fault \in 1 .. 3 : equipment_in(data, fault)
EquipmentEditFault ==
    /\ FaultLeft
    /\ \E equip_id \in EquipIds, data \in EquipmentEditRequests, fault \in 1 .. 2 :
          equipment_edit(equip_id, data, fault)
AddMaintenanceLogFault ==
    /\ FaultLeft
    /\ \E equip_id \in EquipIds, data \in MaintenanceRequests, fault \in 1 .. 3,
          fk \in BOOLEAN :
          add_maintenance_log(equip_id, data, fault, fk)

NextFault ==
    \/ Next
    \/ ReagentInFault \/ ReagentOutFault
    \/ EquipmentInFault \/ EquipmentEditFault \/ AddMaintenanceLogFault

SpecFault == Init /\ [][NextFault]_vars
(***************************************************************************)
(* Dates. A date is <<year, month, day>>; the store orders ISO dates as    *)
(* the tuples are ordered, and datetime subtracts their ordinals.          *)
(***************************************************************************)
IsLeap(y) == (y % 4 = 0) /\ ((y % 100 # 0) \/ (y % 400 = 0))

DaysInMonth(y, m) ==
    IF m = 2 THEN (IF IsLeap(y) THEN 29 ELSE 28)
    ELSE IF m \in {4, 6, 9, 11} THEN 30 ELSE 31

\* the days of the year before the first of month m
DaysBeforeMonth(y, m) ==
    <<0, 31, 59, 90, 120, 151, 181, 212, 243, 273, 304, 334>>[m]
        + (IF m > 2 /\ IsLeap(y) THEN 1 ELSE 0)

\* date.toordinal()
ToOrdinal(date) ==
    LET y == date[1] - 1
    IN y * 365 + (y \div 4) - (y \div 100) + (y \div 400)
         + DaysBeforeMonth(date[1], date[2]) + date[3]

NextDay(date) ==
    IF date[3] < DaysInMonth(date[1], date[2]) THEN <<date[1], date[2], date[3] + 1>>
    ELSE IF date[2] < 12 THEN <<date[1], date[2] + 1, 1>>
    ELSE <<date[1] + 1, 1, 1>>

PrevDay(date) ==
    IF date[3] > 1 THEN <<date[1], date[2], date[3] - 1>>
    ELSE IF date[2] > 1 THEN <<date[1], date[2] - 1, DaysInMonth(date[1], date[2] - 1)>>
    ELSE <<date[1] - 1, 12, 31>>

\* date + timedelta(days=n)
RECURSIVE AddDays(_, _)
AddDays(date, n) ==
    IF n = 0 THEN date
    ELSE IF n > 0 THEN AddDays(NextDay(date), n - 1)
    ELSE AddDays(PrevDay(date), n + 1)

\* the order of .gte / .lte on a date column
DateLE(a, b) ==
    \/ a[1] < b[1]
    \/ a[1] = b[1] /\ a[2] < b[2]
    \/ a[1] = b[1] /\ a[2] = b[2] /\ a[3] <= b[3]

(***************************************************************************)
(* GET /api/dashboard                                                      *)
(***************************************************************************)
\* warning_days = 30
WarningDays == 30

\* .limit(5) and expiring_soon[:5]
DashboardLimit == 5

Min(a, b) == IF a < b THEN a ELSE b

\* the rows of a result set, in the order the store hands them back (by id)
RECURSIVE RowsInOrder(_)
RowsInOrder(rows) ==
    IF rows = {} THEN <<>>
    ELSE LET first == CHOOSE r \in rows : \A o \in rows : r.id <= o.id
         IN <<first>> \o RowsInOrder(rows \ {first})

\* defective variant: the window is open at its far end (lt instead of lte)
ExpiringBatchesOpenWindow(bs, day) ==
    LET thirty_days_later == AddDays(day, WarningDays)
    IN { b \in bs : DateLE(day, b.exp_date) /\ DateLE(b.exp_date, thirty_days_later)
                    /\ b.exp_date # thirty_days_later }

\* .gte('exp_date', today).lte('exp_date', thirty_days_later)
ExpiringBatches(bs, day) ==
    LET thirty_days_later == AddDays(day, WarningDays)
    IN { b \in bs : DateLE(day, b.exp_date) /\ DateLE(b.exp_date, thirty_days_later) }

\* the embedded reagents(name) of a batch row, or the placeholder
ReagentNameOf(rs, batch) ==
    LET parent == { r \in rs : r.id = batch.reagent_id }
    IN IF parent = {} THEN "unknown reagent" ELSE (CHOOSE r \in parent : TRUE).name

ExpiringEntry(rs, batch, day) ==
    [reagentName |-> ReagentNameOf(rs, batch),
     batch |-> [batchNo |-> batch.batch_no],
     daysLeft |-> ToOrdinal(batch.exp_date) - ToOrdinal(day)]

\* list.sort(key=daysLeft): stable, ascending
RECURSIVE InsertByDaysLeft(_, _)
InsertByDaysLeft(sorted, x) ==
    IF sorted = <<>> THEN <<x>>
    ELSE IF sorted[Len(sorted)].daysLeft <= x.daysLeft THEN Append(sorted, x)
    ELSE Append(InsertByDaysLeft(SubSeq(sorted, 1, Len(sorted) - 1), x),
                sorted[Len(sorted)])

RECURSIVE SortByDaysLeft(_)
SortByDaysLeft(list) ==
    IF list = <<>> THEN <<>>
    ELSE InsertByDaysLeft(SortByDaysLeft(SubSeq(list, 1, Len(list) - 1)),
                          list[Len(list)])

Head5(list) == SubSeq(list, 1, Min(Len(list), DashboardLimit))

ExpiringSoon(rs, bs, day) ==
    LET rows == RowsInOrder(ExpiringBatches(bs, day))
        expiring_soon == [i \in 1 .. Len(rows) |-> ExpiringEntry(rs, rows[i], day)]
    IN Head5(SortByDaysLeft(expiring_soon))

\* records ordered by time, newest first, limit 5
RecentRecords(recs) ==
    [i \in 1 .. Min(Len(recs), DashboardLimit) |-> recs[Len(recs) + 1 - i]]

\* a read: it leaves the store, and the count of mutating requests, alone
get_dashboard_data ==
    /\ last' = [op |-> "get_dashboard_data",
                data |-> [recentRecords |-> RecentRecords(records),
                          expiringSoon |-> ExpiringSoon(reagents, reagent_batches,
                                                        today)],
                status |-> 200, path |-> "ok", audit |-> "none",
                before |-> Snapshot]
    /\ UNCHANGED <<store, nextId, calls, faults, today, reqs>>

(***************************************************************************)
(* The dashboard over the stores that stock-ins of one reagent leave: up   *)
(* to MaxDashBatches batches, told apart by batch number, expiring around  *)
(* the day of the request.                                                 *)
(***************************************************************************)
MaxDashBatches == 6

BatchNos == <<"B1", "B2", "B3", "B4", "B5", "B6", "B7", "B8", "B9">>

\* expiry dates, in days from the day of the request
ExpiryOffsets == {-1, 0, 30, 31}

Todays == { <<2025, 12, 15>>, <<2028, 2, 10>> }

DashStockInRequests ==
    { [name |-> "NaCl", articleNo |-> "A1", manufacturer |-> "M1",
       category |-> Absent, qty |-> 1, operator |-> "op",
       batchDetails |->
           [BaseDetails EXCEPT !.batchNo = BatchNos[Cardinality(reagent_batches) + 1],
                               !.expDate = AddDays(today, o)]] :
        o \in ExpiryOffsets }

InitDash ==
    /\ today \in Todays
    /\ reagents = {}
    /\ reagent_batches = {}
    /\ equipment = {}
    /\ maintenance_logs = {}
    /\ records = <<>>
    /\ nextId = 1
    /\ calls = 0
    /\ faults = 0
    /\ reqs = <<>>
    /\ last = [op |-> "none", data |-> Null, status |-> 0, path |-> "none",
               audit |-> "none",
               before |-> [reagents |-> {}, reagent_batches |-> {},
                           equipment |-> {}, maintenance_logs |-> {},
                           records |-> <<>>]]

DashStockIn ==
    /\ Cardinality(reagent_batches) < MaxDashBatches
    /\ UNCHANGED faults
    /\ \E data \in DashStockInRequests : reagent_in(data, 0)

GetDashboard == get_dashboard_data

NextDash == DashStockIn \/ GetDashboard

SpecDash == InitDash /\ [][NextDash]_vars

(***************************************************************************)
(* Properties of one call, read off the response (last) and the store      *)
(* before (last.before) and after it.                                      *)
(***************************************************************************)
Ids(rows) == { r.id : r \in rows }

\* the composite key of a batch row, and the key a stock-in submits under
\* the reagent row r
BatchKey(b) ==
    <<b.reagent_id, b.batch_no, b.prod_date, b.exp_date, b.tests_per_unit,
      b.location, b.temp>>
SubmittedKey(r, d) ==
    <<r.id, d.batchNo, d.prodDate, d.expDate, d.testsPerUnit, d.location, d.temp>>

\* the batch rows, before the stock-in, whose key the submitted key matches
MatchedBefore ==
    { b \in last.before.reagent_batches :
        \E r \in last.before.reagents :
            /\ r.name = last.data.name
            /\ BatchKey(b) = SubmittedKey(r, last.data.batchDetails) }

SubmittedTotal == last.data.qty * last.data.batchDetails.testsPerUnit

\* C1: a stock-in whose batch key matches an existing batch row leaves that
\* row with remaining = remaining before + qty * testsPerUnit, and creates no
\* batch row (the set of batch ids, and so their number, is unchanged).
C1_MergeAddsToMatchingBatch ==
    (last.op = "reagent_in" /\ MatchedBefore # {}) =>
        /\ \A b \in MatchedBefore :
             [b EXCEPT !.total_tests = b.total_tests + SubmittedTotal]
                 \in reagent_batches
        /\ Ids(reagent_batches) = Ids(last.before.reagent_batches)
        /\ Cardinality(reagent_batches) = Cardinality(last.before.reagent_batches)

C1_Witness ==
    /\ last.op = "reagent_in"
    /\ last.data.qty = 1
    /\ \E b \in MatchedBefore :
         /\ b.total_tests = 2
         /\ [b EXCEPT !.total_tests = 4] \in reagent_batches

\* C2: a stock-in whose batch key matches no batch row of the resolved
\* reagent creates exactly one batch row, under that reagent, with the
\* submitted details and remaining = qty * testsPerUnit, and leaves every
\* existing batch row as it was.
C2_NewBatchWhenNoMatch ==
    (last.op = "reagent_in" /\ MatchedBefore = {}) =>
        \E nb \in reagent_batches :
            /\ nb.id \notin Ids(last.before.reagent_batches)
            /\ reagent_batches = last.before.reagent_batches \cup {nb}
            /\ \E r \in reagents :
                 /\ r.name = last.data.name
                 /\ BatchKey(nb) = SubmittedKey(r, last.data.batchDetails)
            /\ nb.total_tests = SubmittedTotal

C2_Witness ==
    /\ last.op = "reagent_in"
    /\ MatchedBefore = {}
    /\ last.before.reagent_batches # {}
    /\ Cardinality(reagent_batches) = 2
    /\ \E nb \in reagent_batches \ last.before.reagent_batches :
         /\ nb.total_tests = 3
         /\ nb.batch_no = "B2"

\* the batch row a stock-out names, as it was before the call
NamedBatchBefore ==
    { b \in last.before.reagent_batches : b.id = last.data.batchId }

StoreNow == Snapshot

\* C3: a stock-out on an existing batch with amount <= 0 or amount > the
\* batch's remaining is answered 400 and changes nothing in the store: the
\* remaining value stays, the batch stays, no audit record is appended.
C3_InvalidAmountRejected ==
    \A b \in (IF last.op = "reagent_out" THEN NamedBatchBefore ELSE {}) :
        (last.data.amount <= 0 \/ last.data.amount > b.total_tests) =>
            /\ last.status = 400
            /\ StoreNow = last.before
            /\ b \in reagent_batches
            /\ records = last.before.records

C3_Witness ==
    /\ last.op = "reagent_out"
    /\ last.status = 400
    /\ \E b \in NamedBatchBefore :
         /\ b.total_tests = 2
         /\ last.data.amount = 3
         /\ b \in reagent_batches

\* C4: a stock-out with 0 < amount < remaining leaves the batch row in place
\* with remaining = remaining before - amount.
C4_PartialDeduction ==
    \A b \in (IF last.op = "reagent_out" THEN NamedBatchBefore ELSE {}) :
        (0 < last.data.amount /\ last.data.amount < b.total_tests) =>
            /\ [b EXCEPT !.total_tests = b.total_tests - last.data.amount]
                   \in reagent_batches
            /\ Ids(reagent_batches) = Ids(last.before.reagent_batches)

C4_Witness ==
    /\ last.op = "reagent_out"
    /\ last.status = 200
    /\ \E b \in NamedBatchBefore :
         /\ b.total_tests = 2
         /\ last.data.amount = 1
         /\ [b EXCEPT !.total_tests = 1] \in reagent_batches

\* C5: a stock-out with amount equal to the batch's remaining deletes the
\* batch row and keeps its parent reagent row.
C5_ExactAmountDeletes ==
    \A b \in (IF last.op = "reagent_out" THEN NamedBatchBefore ELSE {}) :
        (last.data.amount = b.total_tests) =>
            /\ b.id \notin Ids(reagent_batches)
            /\ \E r \in reagents : r.id = b.reagent_id

\* the case of C5 in which the code does delete: the batch held stock
C5_DeletedWhenStocked ==
    /\ last.op = "reagent_out"
    /\ \E b \in NamedBatchBefore :
         /\ b.total_tests = 2
         /\ last.data.amount = 2
         /\ b.id \notin Ids(reagent_batches)

\* C7: after a stock-in for name n exactly one reagent row is named n and it
\* holds the submitted article number, manufacturer and category (the
\* default category when none was submitted); a new name adds one row and
\* changes no other row, a known name adds no row and overwrites the three
\* fields of its row.
SubmittedCategory ==
    IF last.data.category = Absent THEN "uncategorized" ELSE last.data.category

NamedNow == { r \in reagents : r.name = last.data.name }
NamedBefore == { r \in last.before.reagents : r.name = last.data.name }

C7_ReagentHoldsSubmittedInfo ==
    (last.op = "reagent_in") =>
        /\ Cardinality(NamedNow) = 1
        /\ \A r \in NamedNow :
             /\ r.article_no = last.data.articleNo
             /\ r.manufacturer = last.data.manufacturer
             /\ r.category = SubmittedCategory
        /\ reagents \ NamedNow = last.before.reagents \ NamedBefore
        /\ NamedBefore = {} =>
             Cardinality(reagents) = Cardinality(last.before.reagents) + 1
        /\ NamedBefore # {} =>
             /\ Ids(reagents) = Ids(last.before.reagents)
             /\ Cardinality(reagents) = Cardinality(last.before.reagents)

C7_Witness ==
    /\ last.op = "reagent_in"
    /\ \E old \in NamedBefore :
         /\ old.article_no = "A2" /\ old.manufacturer = "M2" /\ old.category = "salt"
         /\ [old EXCEPT !.article_no = "A1", !.manufacturer = "M1",
                        !.category = "uncategorized"] \in reagents
\* the equipment rows the call inserted
NewEquipmentRows == { e \in equipment : e.id \notin Ids(last.before.equipment) }

\* C8: a registration that succeeds with a non-empty serial number stores
\* one equipment row with quantity 1 and writes quantity 1 into its audit
\* record, whatever quantity was submitted; one without a serial number
\* stores the submitted quantity, or 1 when none was submitted.
C8_SerialForcesQuantityOne ==
    (last.op = "equipment_in" /\ last.status = 201) =>
        /\ Cardinality(NewEquipmentRows) = 1
        /\ \A e \in NewEquipmentRows :
             IF last.data.serialNo \notin {Absent, Null, ""}
               THEN /\ e.serial_no = last.data.serialNo
                    /\ e.quantity = 1
                    /\ Len(records) = Len(last.before.records) + 1
                    /\ records[Len(records)].type = "equipment-register"
                    /\ records[Len(records)].qty = 1
               ELSE e.quantity =
                        IF last.data.quantity = <<>> THEN 1 ELSE last.data.quantity[1]

C8_Witness ==
    /\ last.op = "equipment_in"
    /\ last.status = 201
    /\ last.data.serialNo = "SN1"
    /\ last.data.quantity = <<5>>
    /\ \E e \in NewEquipmentRows : e.serial_no = "SN1" /\ e.quantity = 1
    /\ records[Len(records)].qty = 1

\* C9: a registration whose serial number is that of an existing equipment
\* row is answered 409, inserts no equipment row, appends no audit record
\* and leaves the store as it was.
C9_DuplicateSerialRejected ==
    (/\ last.op = "equipment_in"
     /\ \E e \in last.before.equipment : e.serial_no = last.data.serialNo) =>
        /\ last.status = 409
        /\ equipment = last.before.equipment
        /\ records = last.before.records
        /\ StoreNow = last.before

C9_Witness ==
    /\ last.op = "equipment_in"
    /\ last.status = 409
    /\ last.data.serialNo = "SN1"
    /\ \E e \in equipment : e.serial_no = "SN1"
    /\ Cardinality(equipment) = 1
    /\ Len(records) = 1

MutatingOps ==
    {"reagent_in", "reagent_out", "equipment_in", "equipment_edit",
     "add_maintenance_log"}

Succeeded == last.status \in {200, 201}

\* the audit records the call appended; the records before it are kept
RecordsKept ==
    /\ Len(records) >= Len(last.before.records)
    /\ SubSeq(records, 1, Len(last.before.records)) = last.before.records
AddedRecords == Len(records) - Len(last.before.records)

\* C6 as stated: every successful mutating call adds exactly one audit
\* record and every failed one adds none.
C6_OneRecordPerSuccess ==
    (last.op \in MutatingOps) =>
        /\ RecordsKept
        /\ Succeeded => AddedRecords = 1
        /\ ~Succeeded => AddedRecords = 0

\* C6 as amended: a successful mutating call adds exactly one audit record
\* when its audit insert succeeds and none when that insert raises (the call
\* still succeeds); a failed call adds none.
C6_OneRecordUnlessAuditFails ==
    (last.op \in MutatingOps) =>
        /\ RecordsKept
        /\ (Succeeded /\ last.audit = "inserted") => AddedRecords = 1
        /\ (Succeeded /\ last.audit = "failed") => AddedRecords = 0
        /\ ~Succeeded => AddedRecords = 0 /\ last.audit = "none"

C6_Witness ==
    /\ last.op = "add_maintenance_log"
    /\ last.status = 201
    /\ last.audit = "inserted"
    /\ Len(last.before.records) = 1
    /\ Len(records) = 2
    /\ records[2].type = "equipment-maintenance"
\* the batches that expire within [today, today + 30 days], by day count
DaysLeft(b) == ToOrdinal(b.exp_date) - ToOrdinal(today)
Qualifying == { b \in reagent_batches : 0 <= DaysLeft(b) /\ DaysLeft(b) <= 30 }

\* the expiring-soon list of the dashboard response
Listed == last.data.expiringSoon
ListedBatches == { b \in reagent_batches : \E i \in 1 .. Len(Listed) :
                                               Listed[i].batch.batchNo = b.batch_no }

\* C10: the expiring-soon list holds only batches with today <= expiry <=
\* today + 30 days, each once and with daysLeft = expiry - today (0 for a
\* batch expiring today; a batch expiring at today + 31 days is left out);
\* it is ascending by daysLeft and holds min(5, number of qualifying batches)
\* entries, none of them with more days left than a qualifying batch that is
\* not listed.
C10_ExpiringSoonList ==
    (last.op = "get_dashboard_data") =>
        /\ Len(Listed) = Min(5, Cardinality(Qualifying))
        /\ ListedBatches \subseteq Qualifying
        /\ Cardinality(ListedBatches) = Len(Listed)
        /\ \A i \in 1 .. Len(Listed) :
             \E b \in Qualifying :
                 /\ Listed[i].batch.batchNo = b.batch_no
                 /\ Listed[i].daysLeft = DaysLeft(b)
                 /\ Listed[i].reagentName = "NaCl"
        /\ \A i, j \in 1 .. Len(Listed) :
             i < j => Listed[i].daysLeft <= Listed[j].daysLeft
        /\ \A b \in Qualifying \ ListedBatches :
             \A i \in 1 .. Len(Listed) : Listed[i].daysLeft <= DaysLeft(b)
        /\ \A b \in reagent_batches :
             (DaysLeft(b) = 0 /\ b \notin ListedBatches) => Len(Listed) = 5

C10_Witness ==
    /\ last.op = "get_dashboard_data"
    /\ Cardinality(Qualifying) = 6
    /\ Len(Listed) = 5
    /\ Listed[1].daysLeft = 0
    /\ Listed[2].daysLeft = 0
    /\ Listed[3].daysLeft = 30
    /\ \E b \in Qualifying \ ListedBatches : DaysLeft(b) = 30

\* C11: no batch row holds zero remaining test-units, in any state reached
\* by stock-in and stock-out calls.
C11_NoBatchAtZeroStock == \A b \in reagent_batches : b.total_tests # 0

\* C12: every batch row holds remaining test-units >= 0, in any state
\* reached by stock-in and stock-out calls.
C12_RemainingNeverNegative == \A b \in reagent_batches : b.total_tests >= 0

\* the primary change of the last call is in the store
PrimaryChangePersists ==
    /\ last.op = "reagent_in" =>
         /\ \E r \in reagents :
              /\ r.name = last.data.name
              /\ r.article_no = last.data.articleNo
              /\ r.manufacturer = last.data.manufacturer
         /\ \A b \in MatchedBefore :
              [b EXCEPT !.total_tests = b.total_tests + SubmittedTotal]
                  \in reagent_batches
         /\ MatchedBefore = {} =>
              \E nb \in reagent_batches :
                  /\ nb.id \notin Ids(last.before.reagent_batches)
                  /\ nb.batch_no = last.data.batchDetails.batchNo
                  /\ nb.total_tests = SubmittedTotal
    /\ last.op = "reagent_out" =>
         /\ NamedBatchBefore # {}
         /\ \A b \in NamedBatchBefore :
              IF b.total_tests - last.data.amount > 0
                THEN [b EXCEPT !.total_tests = b.total_tests - last.data.amount]
                         \in reagent_batches
                ELSE b.id \notin Ids(reagent_batches)
    /\ last.op = "equipment_in" =>
         /\ Cardinality(NewEquipmentRows) = 1
         /\ \A e \in NewEquipmentRows : e.name = last.data.name
    /\ last.op = "equipment_edit" =>
         \E e \in equipment :
             /\ e.id = last.data.id
             /\ e.location = Get(last.data.body.location)
             /\ e.quantity = QuantityOf(last.data.body)
    /\ last.op = "add_maintenance_log" =>
         \E l \in maintenance_logs \ last.before.maintenance_logs :
             l.equipment_id = last.data.id

\* C13: when the audit insert of a mutating call raises and its primary
\* store calls succeeded, the call is still answered with success (200 or
\* 201), its primary change is in the store, and no audit record was added.
C13_AuditFailureKeepsMutation ==
    (last.op \in MutatingOps /\ last.audit = "failed") =>
        /\ Succeeded
        /\ PrimaryChangePersists
        /\ records = last.before.records

C13_Witness ==
    /\ last.op = "reagent_out"
    /\ last.audit = "failed"
    /\ last.status = 200
    /\ Len(records) = 1
    /\ records = last.before.records
    /\ \E b \in NamedBatchBefore :
         /\ b.total_tests = 2
         /\ last.data.amount = 1
         /\ [b EXCEPT !.total_tests = 1] \in reagent_batches

(***************************************************************************)
(* The equipment registry alone: registrations and edits, one at a time.   *)
(***************************************************************************)
MaxEquipmentCalls == 3

RegisterEquipment ==
    /\ calls < MaxEquipmentCalls
    /\ UNCHANGED faults
    /\ \E data \in EquipmentInRequests : equipment_in(data, 0)
EditEquipment ==
    /\ calls < MaxEquipmentCalls
    /\ UNCHANGED faults
    /\ \E equip_id \in EquipIds, data \in EquipmentEditRequests :
          equipment_edit(equip_id, data, 0)

NextEquipment == RegisterEquipment \/ EditEquipment

SpecEquipment == Init /\ [][NextEquipment]_vars

\* C17: every equipment row that carries a serial number has quantity 1, in
\* any state reached by registrations and edits.
C17_SerialisedRowHasQuantityOne ==
    \A e \in equipment : ~Falsy(e.serial_no) => e.quantity = 1

\* the equipment rows an edit names, as they were before the call
EditedBefore == { e \in last.before.equipment : e.id = last.data.id }

\* C18: an edit keeps the name and the serial number of the row it names and
\* leaves every other equipment row as it was; an edit whose id names no
\* equipment row is answered 404, leaves the store as it was and appends no
\* audit record.
C18_EditKeepsNameAndSerial ==
    (last.op = "equipment_edit") =>
        /\ Ids(equipment) = Ids(last.before.equipment)
        /\ Cardinality(equipment) = Cardinality(last.before.equipment)
        /\ \A e \in last.before.equipment \ EditedBefore : e \in equipment
        /\ \A e \in EditedBefore :
             \E u \in equipment :
                 /\ u.id = e.id
                 /\ u.name = e.name
                 /\ u.serial_no = e.serial_no
        /\ EditedBefore = {} =>
             /\ last.status = 404
             /\ StoreNow = last.before
             /\ records = last.before.records
        /\ EditedBefore # {} => last.status = 200

C18_Witness ==
    /\ last.op = "equipment_edit"
    /\ last.status = 200
    /\ last.data.body.location = "L2"
    /\ last.data.body.quantity = <<5>>
    /\ Cardinality(equipment) = 2
    /\ \E e \in EditedBefore :
         /\ e.serial_no = "SN1"
         /\ e.location = "L1"
         /\ [e EXCEPT !.location = "L2", !.quantity = 5] \in equipment
    /\ \E o \in equipment \ EditedBefore :
         /\ o.id # last.data.id
         /\ o.serial_no = "SN2"
         /\ o \in last.before.equipment

(***************************************************************************)
(* The reagent stock alone: stock-ins and stock-outs, one at a time, from  *)
(* the empty store.                                                        *)
(***************************************************************************)
MaxStockCalls == 3

StockIn ==
    /\ calls < MaxStockCalls
    /\ UNCHANGED faults
    /\ \E data \in ReagentInRequests : reagent_in(data, 0)
StockOut ==
    /\ calls < MaxStockCalls
    /\ UNCHANGED faults
    /\ \E data \in ReagentOutRequests : reagent_out(data, 0)

NextStock == StockIn \/ StockOut

SpecStock == Init /\ [][NextStock]_vars

RECURSIVE SumRemaining(_)
SumRemaining(bs) ==
    IF bs = {} THEN 0
    ELSE LET b == CHOOSE x \in bs : TRUE
         IN b.total_tests + SumRemaining(bs \ {b})

RECURSIVE SumQty(_, _)
SumQty(recs, type) ==
    IF recs = <<>> THEN 0
    ELSE (IF Head(recs).type = type THEN Head(recs).qty ELSE 0)
             + SumQty(Tail(recs), type)

\* C19: after stock-ins and stock-outs served one at a time from the empty
\* store, every audit insert succeeding, the remaining test-units summed
\* over the batch rows equal the qty summed over the 'in' audit records
\* minus the qty summed over the 'out' audit records.
C19_StockEqualsAuditedInMinusOut ==
    SumRemaining(reagent_batches) = SumQty(records, "in") - SumQty(records, "out")

C19_Witness ==
    /\ last.op = "reagent_out"
    /\ last.status = 200
    /\ last.path = "deducted"
    /\ Len(records) = 3
    /\ records[2].type = "in"
    /\ records[1].notes[1] = "new batch"
    /\ records[2].notes[1] = "merged"
    /\ SumQty(records, "in") = 4
    /\ SumQty(records, "out") = 3
    /\ SumRemaining(reagent_batches) = 1

\* C20: after stock-ins and stock-outs served one at a time from the empty
\* store, no two batch rows share the key (reagent id, batch number,
\* production date, expiry date, tests-per-unit, location, temperature) and
\* no two reagent rows share a name.
C20_BatchKeysAndReagentNamesUnique ==
    /\ \A b1, b2 \in reagent_batches : BatchKey(b1) = BatchKey(b2) => b1 = b2
    /\ \A r1, r2 \in reagents : r1.name = r2.name => r1 = r2

C20_Witness ==
    /\ last.op = "reagent_in"
    /\ last.path = "merged"
    /\ Cardinality(reagents) = 1
    /\ Cardinality(reagent_batches) = 2
    /\ \E b1, b2 \in reagent_batches :
         /\ b1.batch_no = b2.batch_no
         /\ b1.temp = "4C"
         /\ b2.temp = "-20C"
         /\ b1.reagent_id = b2.reagent_id
    /\ Len(records) = 3

(***************************************************************************)
(* Requests served at the same time. The handlers hold no lock and open no *)
(* transaction: a request is a sequence of store calls, each of them one   *)
(* atomic step of the store, and the store calls of two requests in flight *)
(* interleave in any order. A request keeps what its selects returned in   *)
(* its own locals (fields of its entry in `reqs`).                         *)
(***************************************************************************)
\* number of requests that arrive in one run
MaxRequests == 3

\* the requests in flight: two at a time
InFlight == { i \in DOMAIN reqs : reqs[i].pc # "done" }
CanAccept == Len(reqs) < MaxRequests /\ Cardinality(InFlight) < 2

\* pc: the store call the request is about to make;
\* reagent, reagent_id: reagent_res.data and the id taken from it;
\* read: existing_batch_res.data[0] / batch_res.data, as a set of one row;
\* seen: the ids of the batch rows in the store when the batch select ran;
\* wrote: the id of the row the request inserted (0: none);
\* stale: whether the row the request read had changed when it wrote
NewRequest(op, data, pc) ==
    [op |-> op, data |-> data, pc |-> pc, reagent |-> {}, reagent_id |-> 0,
     read |-> {}, seen |-> {}, wrote |-> 0, stale |-> FALSE, status |-> 0]

ConcReagentInRequests ==
    { [name |-> "NaCl", articleNo |-> "A1", manufacturer |-> "M1",
       category |-> Absent, qty |-> q, batchDetails |-> BaseDetails,
       operator |-> "op"] : q \in {1, 2} }

ConcReagentOutRequests ==
    { [batchId |-> id, amount |-> a, reagentName |-> "NaCl", batchNo |-> "B1",
       user |-> "op", purpose |-> "assay"] : id \in BatchIds, a \in {1, 3} }

ConcEquipmentInRequests ==
    { [name |-> "centrifuge", manufacturer |-> "M1", model |-> "MX",
       serialNo |-> sn, quantity |-> <<>>, location |-> "L1",
       status |-> "in use", purchaseDate |-> "", deploymentDate |-> Absent,
       warrantyDate |-> "2027-01-01", personInCharge |-> "pic",
       operator |-> "op"] : sn \in {Absent, "SN1"} }

\* what the steps of a request in flight leave alone
StepFrame == UNCHANGED <<calls, faults, today, last>>

AcceptReagentIn ==
    /\ CanAccept
    /\ \E data \in ConcReagentInRequests :
          reqs' = Append(reqs, NewRequest("reagent_in", data, "select reagent"))
    /\ UNCHANGED <<store, nextId>>
    /\ StepFrame
AcceptReagentOut ==
    /\ CanAccept
    /\ \E data \in ConcReagentOutRequests :
          reqs' = Append(reqs, NewRequest("reagent_out", data, "select batch"))
    /\ UNCHANGED <<store, nextId>>
    /\ StepFrame
AcceptEquipmentIn ==
    /\ CanAccept
    /\ \E data \in ConcEquipmentInRequests :
          reqs' = Append(reqs, NewRequest("equipment_in", data, "select serial"))
    /\ UNCHANGED <<store, nextId>>
    /\ StepFrame

At(i, op, pc) == reqs[i].op = op /\ reqs[i].pc = pc

\* the request returns: nothing of it is in flight any more
Done(i, status) == reqs' = [reqs EXCEPT ![i].pc = "done", ![i].status = status]

(***************************************************************************)
(* reagent_in, store call by store call                                    *)
(***************************************************************************)
\* supabase.table('reagents').select('id').eq('name', data['name'])
StockInSelectReagent ==
    \E i \in DOMAIN reqs :
       /\ At(i, "reagent_in", "select reagent")
       /\ LET reagent_res == { r \in reagents : r.name = reqs[i].data.name }
          IN IF reagent_res = {}
               THEN reqs' = [reqs EXCEPT ![i].pc = "insert reagent"]
               ELSE \E r0 \in reagent_res :
                      reqs' = [reqs EXCEPT ![i].pc = "update reagent",
                                           ![i].reagent = {r0},
                                           ![i].reagent_id = r0.id]
       /\ UNCHANGED <<store, nextId>>
       /\ StepFrame

\* the update of the reagent row found, or the insert of a new one
StockInWriteReagent ==
    \E i \in DOMAIN reqs :
       /\ reqs[i].op = "reagent_in"
       /\ reqs[i].pc \in {"update reagent", "insert reagent"}
       /\ IF reqs[i].pc = "update reagent"
            THEN /\ reagents' = UpdateReagent(reagents, reqs[i].reagent_id,
                                              reqs[i].data)
                 /\ reqs' = [reqs EXCEPT ![i].pc = "select batch"]
                 /\ UNCHANGED nextId
            ELSE /\ reagents' = InsertReagent(reagents, nextId, reqs[i].data)
                 /\ reqs' = [reqs EXCEPT ![i].pc = "select batch",
                                         ![i].reagent_id = nextId]
                 /\ nextId' = nextId + 1
       /\ UNCHANGED <<reagent_batches, equipment, maintenance_logs, records>>
       /\ StepFrame

\* defective variant: the lookup finds no row, whatever the table holds
SelectBatchFindsNothing(bs, reagent_id, d) == {}

\* existing_batch_res: the rows that pass the seven .eq() filters
SelectBatch(bs, reagent_id, d) == { b \in bs : BatchMatches(b, reagent_id, d) }

StockInSelectBatch ==
    \E i \in DOMAIN reqs :
       /\ At(i, "reagent_in", "select batch")
       /\ LET existing_batch_res ==
                  SelectBatch(reagent_batches, reqs[i].reagent_id,
                              reqs[i].data.batchDetails)
              seen == { b.id : b \in reagent_batches }
          IN IF existing_batch_res = {}
               THEN reqs' = [reqs EXCEPT ![i].pc = "insert batch",
                                         ![i].seen = seen]
               ELSE \E b0 \in existing_batch_res :
                      reqs' = [reqs EXCEPT ![i].pc = "update batch",
                                           ![i].read = {b0}, ![i].seen = seen]
       /\ UNCHANGED <<store, nextId>>
       /\ StepFrame

\* the update of the row read to (total_tests read + total_in), or the
\* insert of a new row
StockInWriteBatch ==
    \E i \in DOMAIN reqs :
       /\ reqs[i].op = "reagent_in"
       /\ reqs[i].pc \in {"update batch", "insert batch"}
       /\ IF reqs[i].pc = "update batch"
            THEN \E existing_batch \in reqs[i].read :
                   /\ reagent_batches' =
                          MergeBatch(reagent_batches, existing_batch,
                                     TotalIn(reqs[i].data))
                   /\ reqs' = [reqs EXCEPT
                                 ![i].pc = "log",
                                 ![i].stale = existing_batch \notin reagent_batches]
                   /\ UNCHANGED nextId
            ELSE /\ reagent_batches' =
                        InsertBatch(reagent_batches, nextId, reqs[i].reagent_id,
                                    reqs[i].data.batchDetails, TotalIn(reqs[i].data))
                 /\ reqs' = [reqs EXCEPT ![i].pc = "log", ![i].wrote = nextId]
                 /\ nextId' = nextId + 1
       /\ UNCHANGED <<reagents, equipment, maintenance_logs, records>>
       /\ StepFrame

\* log_record(...) and the 201 response
StockInLog ==
    \E i \in DOMAIN reqs :
       /\ At(i, "reagent_in", "log")
       /\ LET data == reqs[i].data
              log_notes == IF reqs[i].read # {} THEN <<"merged", data.qty>>
                                                ELSE <<"new batch", data.qty>>
              rec == Record("in", "reagent", data.name, data.batchDetails.batchNo,
                            TotalIn(data), data.operator, log_notes)
          IN records' = log_record(records, rec, FALSE)
       /\ Done(i, 201)
       /\ UNCHANGED <<reagents, reagent_batches, equipment, maintenance_logs, nextId>>
       /\ StepFrame

(***************************************************************************)
(* reagent_out, store call by store call                                   *)
(***************************************************************************)
\* the select of the batch row by id, the 404 and the validation of the
\* amount against the total_tests read
StockOutSelectBatch ==
    \E i \in DOMAIN reqs :
       /\ At(i, "reagent_out", "select batch")
       /\ LET batch_res == { b \in reagent_batches : b.id = reqs[i].data.batchId }
          IN IF batch_res = {}
               THEN \E status \in {404, 500} : Done(i, status)
               ELSE \E batch \in batch_res :
                      IF InvalidAmount(reqs[i].data.amount, batch)
                        THEN Done(i, 400)
                        ELSE reqs' = [reqs EXCEPT
                                        ![i].pc = "write batch",
                                        ![i].read = {batch},
                                        ![i].seen = { b.id : b \in reagent_batches }]
       /\ UNCHANGED <<store, nextId>>
       /\ StepFrame

\* the update to (total_tests read - amount_out), or the delete, by id: an
\* update or a delete that finds no row changes nothing and raises nothing
StockOutWriteBatch ==
    \E i \in DOMAIN reqs :
       /\ At(i, "reagent_out", "write batch")
       /\ \E batch \in reqs[i].read :
            /\ reagent_batches' =
                   Deduct(reagent_batches, batch, reqs[i].data.amount)
            /\ reqs' = [reqs EXCEPT ![i].pc = "log",
                                    ![i].stale = batch \notin reagent_batches]
       /\ UNCHANGED <<reagents, equipment, maintenance_logs, records, nextId>>
       /\ StepFrame

\* log_record(...) and the 200 response
StockOutLog ==
    \E i \in DOMAIN reqs :
       /\ At(i, "reagent_out", "log")
       /\ LET data == reqs[i].data
              rec == Record("out", "reagent", data.reagentName, data.batchNo,
                            data.amount, data.user, data.purpose)
          IN records' = log_record(records, rec, FALSE)
       /\ Done(i, 200)
       /\ UNCHANGED <<reagents, reagent_batches, equipment, maintenance_logs, nextId>>
       /\ StepFrame

(***************************************************************************)
(* equipment_in, store call by store call                                  *)
(***************************************************************************)
\* the select on serial_no (not made when no serial number came) and the 409
RegisterSelectSerial ==
    \E i \in DOMAIN reqs :
       /\ At(i, "equipment_in", "select serial")
       /\ IF SerialTaken(equipment, reqs[i].data)
            THEN Done(i, 409)
            ELSE reqs' = [reqs EXCEPT ![i].pc = "insert"]
       /\ UNCHANGED <<store, nextId>>
       /\ StepFrame

\* the insert of the equipment row. uniqueEnforced: whether the table
\* rejects a second row with the same serial_no (the schema is not part of
\* the repository); the rejection raises and the handler answers 500
RegisterInsert ==
    \E i \in DOMAIN reqs, uniqueEnforced \in BOOLEAN :
       /\ At(i, "equipment_in", "insert")
       /\ IF uniqueEnforced /\ SerialTaken(equipment, reqs[i].data)
            THEN /\ Done(i, 500)
                 /\ UNCHANGED <<store, nextId>>
            ELSE /\ equipment' = equipment \cup { WithId(NewEquip(reqs[i].data), nextId) }
                 /\ nextId' = nextId + 1
                 /\ reqs' = [reqs EXCEPT ![i].pc = "log", ![i].wrote = nextId]
                 /\ UNCHANGED <<reagents, reagent_batches, maintenance_logs, records>>
       /\ StepFrame

\* log_record(...) and the 201 response
RegisterLog ==
    \E i \in DOMAIN reqs :
       /\ At(i, "equipment_in", "log")
       /\ LET new_equip == NewEquip(reqs[i].data)
              rec == Record("equipment-register", "equipment", new_equip.name,
                            DisplayId(new_equip), new_equip.quantity,
                            Get(reqs[i].data.operator), "")
          IN records' = log_record(records, rec, FALSE)
       /\ Done(i, 201)
       /\ UNCHANGED <<reagents, reagent_batches, equipment, maintenance_logs, nextId>>
       /\ StepFrame

NextConcurrent ==
    \/ AcceptReagentIn \/ AcceptReagentOut \/ AcceptEquipmentIn
    \/ StockInSelectReagent \/ StockInWriteReagent \/ StockInSelectBatch
    \/ StockInWriteBatch \/ StockInLog
    \/ StockOutSelectBatch \/ StockOutWriteBatch \/ StockOutLog
    \/ RegisterSelectSerial \/ RegisterInsert \/ RegisterLog

SpecConcurrent == Init /\ [][NextConcurrent]_vars

\* two batch rows under one composite key
DuplicateBatches ==
    { pair \in reagent_batches \X reagent_batches :
        pair[1].id < pair[2].id /\ BatchKey(pair[1]) = BatchKey(pair[2]) }

\* C14: two stock-ins in flight at the same time, for one reagent and one
\* batch key that no row carries yet, can both find no batch and both
\* insert, which leaves two batch rows under one composite key
\* (C14_Witness). Such a pair of rows comes from nothing else: the two rows
\* were inserted by two stock-in requests whose batch lookups both ran
\* before either row was in the table.
C14_DuplicatesOnlyFromOverlap ==
    \A pair \in DuplicateBatches :
        \E i, j \in DOMAIN reqs :
            /\ i # j
            /\ reqs[i].op = "reagent_in" /\ reqs[i].wrote = pair[1].id
            /\ reqs[j].op = "reagent_in" /\ reqs[j].wrote = pair[2].id
            /\ pair[1].id \notin reqs[j].seen
            /\ pair[2].id \notin reqs[i].seen

C14_Witness ==
    /\ Len(reqs) = 2
    /\ \A i \in DOMAIN reqs :
         /\ reqs[i].op = "reagent_in"
         /\ reqs[i].status = 201
         /\ reqs[i].read = {}
    /\ reqs[1].reagent_id = reqs[2].reagent_id
    /\ Cardinality(reagents) = 1
    /\ Cardinality(reagent_batches) = 2
    /\ DuplicateBatches # {}
    /\ Len(records) = 2

\* no request is in flight
Quiescent == InFlight = {}

\* C15: two stock-outs in flight at the same time on one batch can both
\* read the same remaining value and both succeed, which leaves the batch
\* with a remaining value other than (initial - sum of the two amounts),
\* the audited amounts exceeding the stock that was there (C15_Witness).
\* The stock departs from the audit trail through nothing else: once no
\* request is in flight, the remaining test-units summed over the batch
\* rows equal audited 'in' minus audited 'out' unless some request wrote a
\* batch row that had changed since the request read it.
C15_LostUpdateOnlyFromOverlap ==
    (Quiescent /\ \A i \in DOMAIN reqs : ~reqs[i].stale) =>
        SumRemaining(reagent_batches)
            = SumQty(records, "in") - SumQty(records, "out")

C15_Witness ==
    /\ Quiescent
    /\ Len(reqs) = 3
    /\ reqs[1].op = "reagent_in"
    /\ \A i \in {2, 3} :
         /\ reqs[i].op = "reagent_out"
         /\ reqs[i].status = 200
         /\ reqs[i].data.amount = 3
    /\ reqs[2].read = reqs[3].read
    /\ \E b \in reqs[2].read :
         /\ b.total_tests = 4
         /\ [b EXCEPT !.total_tests = 1] \in reagent_batches
    /\ SumQty(records, "out") = 6
    /\ SumQty(records, "in") = 4
    /\ SumRemaining(reagent_batches) = 1

\* C16: no two equipment rows carry the same non-null serial number, in any
\* reachable state, registrations in flight at the same time included.
C16_SerialNumbersUnique ==
    \A e1, e2 \in equipment :
        (~Falsy(e1.serial_no) /\ e1.serial_no = e2.serial_no) => e1 = e2
====
